---------------------------- MODULE Spec2Model ----------------------------
(***************************************************************************)
(* Model of the Electrum synchronisation worker of mycitadel-desktop       *)
(* (src/src/worker/electrum.rs): the worker thread and its command loop,   *)
(* the block watcher (ticker) thread, the command queue, and the event     *)
(* channel to the wallet window.                                           *)
(***************************************************************************)
EXTENDS Integers, Sequences, FiniteSets, TLC

(***************************************************************************)
(* Bounds of the model.                                                    *)
(***************************************************************************)
\* Sync and Update commands the wallet window issues
MaxCmds == 3
\* commands waiting in the queue (the mpsc channel itself is unbounded)
MaxQueue == 2
\* failed calls (connection attempts included) reported as Error since the
\* latest pass began
MaxFails == 1
\* chain-tip notifications of block_headers_pop since the latest pass began
MaxTips == 1
\* Refresh requests of the user in a wallet window
MaxRefresh == 1
\* payments composed in a wallet window
MaxPays == 1

(***************************************************************************)
(* Program constants.                                                      *)
(***************************************************************************)
\* electrum.rs:298  offset..=(offset + 19)  and  electrum.rs:355  offset += 20
WindowSize == 20
\* electrum.rs:359  txids.chunks(20)
ChunkSize == 20
\* electrum.rs:368  ... / 20.0
ProgressDiv == 20

\* electrum.rs:294  let mut offset = 0u16: the largest u16
U16Max == 65535

\* component.rs:95  bitcoin::policy::DUST_RELAY_TX_FEE
DUST_RELAY_TX_FEE == 3000
\* component.rs:122  bitcoin::blockdata::constants::WITNESS_SCALE_FACTOR
WITNESS_SCALE_FACTOR == 4
\* component.rs:125  if cycle_lim > 6
CycleLimit == 6

None == "None"
Servers == {"e1", "e2"}

(***************************************************************************)
(* The indexing service.  A profile fixes, for every chain (change = TRUE  *)
(* or FALSE) and every window offset, the history and the unspent outputs  *)
(* the service returns.  Transaction ids are numbers.                      *)
(***************************************************************************)
Profiles == {"empty", "used"}

\* the (index, txid) pairs of the history of the scripts offset..offset+19;
\* the service "endless" has history for the first script of every window
\* of the Change chain
ServerHistory(p, chg, off) ==
    CASE p = "endless" /\ chg -> {<<off, 1>>}
      [] p = "used" /\ chg /\ off = 0 -> {<<3, 1>>, <<17, 2>>}
      [] p = "used" /\ chg /\ off = 2 * WindowSize -> {<<45, 3>>}
      [] p = "used" /\ ~chg /\ off = 0 -> {<<i % WindowSize, i>> : i \in 2..(ChunkSize + 2)}
      [] p = "used" /\ ~chg /\ off = WindowSize -> {<<25, 23>>}
      [] OTHER -> {}

\* the (index, txid, vout, value, height) of the unspent outputs of the same
\* scripts; the height is 0 for an unconfirmed transaction
ServerUnspent(p, chg, off) ==
    CASE p = "used" /\ chg /\ off = 0 -> {<<17, 2, 0, 5000, 700001>>}
      [] p = "used" /\ ~chg /\ off = WindowSize ->
            {<<25, 23, 1, 60000, 700002>>, <<25, 24, 0, 70000, 0>>}
      [] OTHER -> {}

VARIABLES
    session,     \* the wallet window: "open", "closed" (its Channel and its
                 \* command Sender dropped) or "panicked"
    ticker,      \* the blockwatcher thread: "alive" or "dead"
    cmdq,        \* the mpsc command queue (tx, rx)
    issued,      \* the Sync and Update commands the window has sent, in order
    events,      \* the messages delivered to the window's Channel since the
                 \* latest pass began (all of them before the first pass), in order
    rpc,         \* the connection attempts and the fallible calls of
                 \* electrum_sync since the latest pass began, in order
    passes,      \* the number of passes begun
    profile,     \* what the indexing service holds
    wpc,         \* the worker thread: "init", "recv", "subscribe", "fee",
                 \* "history", "utxo", "tx", or "dead" (panicked)
    electrum,    \* wallet_settings.electrum()
    client,      \* Option<ElectrumClient>: None, or the server it is connected to
    sync,        \* the local variables of electrum_sync: change (the chain of
                 \* the for loop), offset, upto, upto_index, txids, and no
                 \* (the number of the next chunk of txids)
    handled,     \* the wallet window: the number of messages of events it has
                 \* handled
    seen,        \* the value of passes when the window last handled a message
    electrum_state,  \* the ElectrumState last given to update_electrum_state
    shown,       \* the ElectrumStates shown since the last Connecting, in order
    wallet,      \* the WalletState of the window's model
    compose,     \* a call of compose_psbt: its inputs and what it returned
    est,         \* a call of height_date_time_est: its input and its result
    apply,       \* a UtxoBatch message delivered to a window more than once:
                 \* its batch and the number of times it has been handled
    pay,         \* the payment dialog of the window (pay_widgets) and the
                 \* messages the window has emitted on launcher_stream
    launcher     \* the launcher window (view/launch/component.rs) and the
                 \* windows it has opened

\* the variables of the wallet window (Component) and of the functions it
\* calls
window == <<handled, seen, electrum_state, shown, wallet, compose, est, apply, pay,
            launcher>>

vars == <<session, ticker, cmdq, issued, events, rpc, passes, profile, wpc,
          electrum, client, sync, window>>

(***************************************************************************)
(* Commands (enum Cmd) and messages (enum Msg).                            *)
(***************************************************************************)
CmdSync == [type |-> "Sync", server |-> None]
CmdPull == [type |-> "Pull", server |-> None]
CmdUpdate(e) == [type |-> "Update", server |-> e]

MsgConnecting == [type |-> "Connecting"]
MsgConnected == [type |-> "Connected"]
MsgComplete == [type |-> "Complete"]
MsgLastBlock == [type |-> "LastBlock"]
MsgLastBlockUpdate == [type |-> "LastBlockUpdate"]
MsgFeeEstimate == [type |-> "FeeEstimate"]
MsgHistoryBatch(batch, off) == [type |-> "HistoryBatch", batch |-> batch, no |-> off]
MsgUtxoBatch(batch, off) == [type |-> "UtxoBatch", batch |-> batch, no |-> off]
MsgTxBatch(batch, num, den) == [type |-> "TxBatch", batch |-> batch, num |-> num, den |-> den]
MsgChannelDisconnected == [type |-> "ChannelDisconnected"]
MsgError(err) == [type |-> "Error", err |-> err]

\* a fallible call of the worker: the operation, the server of the client it
\* is made on, the chain and offset (or chunk number) it is about, its outcome
Call(op, e, chg, off, ok) == [op |-> op, server |-> e, change |-> chg, offset |-> off, ok |-> ok]

(***************************************************************************)
(* Pure helpers.                                                           *)
(***************************************************************************)
Count(s, type) == Cardinality({i \in 1..Len(s) : s[i].type = type})

Max(S) == CHOOSE x \in S : \A y \in S : y <= x

Min(S) == CHOOSE x \in S : \A y \in S : x <= y

\* [T]::chunks(20): the number of chunks of a sequence of n elements
NumChunks(n) == (n + ChunkSize - 1) \div ChunkSize

\* mutant of Chunk: the chunk starts at the head of the vector each time
ChunkFromStart(S, k) == {x \in S : Cardinality({y \in S : y < x}) \div ChunkSize <= k}

\* BTreeSet::into_iter and [T]::chunks(20): chunk number k (from 0) of the
\* elements of S in ascending order
Chunk(S, k) == {x \in S : Cardinality({y \in S : y < x}) \div ChunkSize = k}

\* one more call may fail, one more tip may arrive (bounds of the model on
\* the length of the event stream; none once the stream has ended)
MayFail == session # "open" \/ Count(events, "Error") < MaxFails

MayTip == session # "open" \/ Count(events, "LastBlockUpdate") < MaxTips


(***************************************************************************)
(* The worker thread.                                                      *)
(***************************************************************************)
\* mutant of ChainOrder: the Change chain only
ChainOrderChange == <<TRUE>>

\* mutant of ChainOrder: the Receiving chain is scanned first
ChainOrderSwapped == <<FALSE, TRUE>>

\* electrum.rs:293  for change in [true, false]
ChainOrder == <<TRUE, FALSE>>

\* electrum.rs:291-295: the local variables of electrum_sync before the scan
SyncLocals ==
    [change |-> ChainOrder[1], offset |-> 0, upto |-> 0,
     upto_index |-> [c \in BOOLEAN |-> 0], txids |-> {}, no |-> 0]

\* sender.send(msg).expect(..): the messages are delivered and the thread goes
\* on to pc with the locals loc, or the Channel is gone and the thread panics
Send(msgs, pc, loc) ==
    IF session = "open"
    THEN events' = events \o msgs /\ wpc' = pc /\ sync' = loc
    ELSE events' = events /\ wpc' = "dead" /\ sync' = SyncLocals

\* mutant of Fail: the error ends the worker thread
FailExits(err) == Send(<<MsgError(err)>>, "dead", SyncLocals)

\* the ? operator of electrum_sync and the map_err of the loop: the pass is
\* abandoned, Msg::Error is sent and the loop goes on
Fail(err) == Send(<<MsgError(err)>>, "recv", SyncLocals)

\* electrum_init: ElectrumClient::from_config succeeds (ok) or fails
electrum_init(e, ok) ==
    /\ rpc' = Append(rpc, Call("connect", e, FALSE, 0, ok))
    /\ IF ok
       THEN client' = e /\ events' = events /\ wpc' = "recv" /\ sync' = sync
       ELSE client' = None /\ Send(<<MsgError("connect")>>, "recv", sync)

\* the first statement of the thread: let mut client = electrum_init(..)
WorkerInit ==
    /\ wpc = "init"
    /\ \E ok \in BOOLEAN : (ok \/ MayFail) /\ electrum_init(electrum, ok)
    /\ UNCHANGED <<session, ticker, cmdq, issued, passes, profile, electrum>>
    /\ UNCHANGED window

\* mutant of update_electrum: the settings keep the old server
update_electrum_keeps(old, new) == old

\* wallet_settings.update_electrum(electrum)
update_electrum(old, new) == new

\* mutant of WorkerIdle: commands are taken while a pass is under way
WorkerIdleAnytime == wpc \notin {"init", "dead"}

\* the loop is at rx.recv(): no command is being handled
WorkerIdle == wpc = "recv"

\* the arm (Some(_), Ok(Cmd::Update(electrum)))
RecvUpdate(cmd) ==
    /\ electrum' = update_electrum(electrum, cmd.server)
    /\ \E ok \in BOOLEAN : (ok \/ MayFail) /\ electrum_init(electrum', ok)
    /\ UNCHANGED passes

\* the arm (Some(client), Ok(Cmd::Sync)) up to the first adapter call
RecvSync ==
    /\ IF session = "open"
       THEN /\ events' = <<MsgConnecting, MsgConnected>>
            /\ rpc' = <<>>
            /\ passes' = passes + 1
            /\ wpc' = "subscribe"
       ELSE /\ wpc' = "dead"
            /\ UNCHANGED <<events, rpc, passes>>
    /\ sync' = SyncLocals
    /\ UNCHANGED <<electrum, client>>

\* mutant of RecvPull: the header popped is reported as LastBlock, after a
\* Connecting
RecvPullLastBlock ==
    /\ \E res \in {"some", "none", "err"} :
         CASE res = "some" ->
                MayTip /\ Send(<<MsgConnecting, MsgLastBlock>>, wpc, sync)
           [] res = "none" -> UNCHANGED <<events, wpc, sync>>
           [] res = "err" -> MayFail /\ Send(<<MsgError("rpc")>>, wpc, sync)
    /\ UNCHANGED <<rpc, passes, electrum, client>>

\* the arm (Some(client), Ok(Cmd::Pull)): block_headers_pop and its result
RecvPull ==
    /\ \E res \in {"some", "none", "err"} :
         CASE res = "some" ->
                MayTip /\ Send(<<MsgLastBlockUpdate>>, wpc, sync)
           [] res = "none" -> UNCHANGED <<events, wpc, sync>>
           [] res = "err" -> MayFail /\ Send(<<MsgError("rpc")>>, wpc, sync)
    /\ UNCHANGED <<rpc, passes, electrum, client>>

\* one turn of the loop: rx.recv() and the match on (&client, rx.recv())
WorkerRecv ==
    /\ WorkerIdle
    /\ wpc # "dead"
    /\ IF cmdq # <<>>
       THEN /\ cmdq' = Tail(cmdq)
            /\ LET cmd == Head(cmdq)
               IN  IF client = None
                   THEN UNCHANGED <<events, rpc, passes, wpc, electrum, client, sync>>
                   ELSE CASE cmd.type = "Update" -> RecvUpdate(cmd)
                          [] cmd.type = "Sync" -> RecvSync
                          [] cmd.type = "Pull" -> RecvPull
       ELSE \* recv() fails only when every Sender is dropped
            /\ session # "open" /\ ticker = "dead"
            /\ Send(<<MsgChannelDisconnected>>, wpc, sync)
            /\ UNCHANGED <<cmdq, rpc, passes, electrum, client>>
    /\ UNCHANGED <<session, ticker, issued, profile>>
    /\ UNCHANGED window

\* electrum.rs:279-282: block_headers_subscribe and Msg::LastBlock
SyncSubscribe ==
    /\ wpc = "subscribe"
    /\ \E ok \in BOOLEAN :
         /\ ok \/ MayFail
         /\ rpc' = Append(rpc, Call("subscribe", client, FALSE, 0, ok))
         /\ IF ok THEN Send(<<MsgLastBlock>>, "fee", sync) ELSE Fail("rpc")
    /\ UNCHANGED <<session, ticker, cmdq, issued, passes, profile, electrum, client>>
    /\ UNCHANGED window

\* electrum.rs:284-287: batch_estimate_fee and Msg::FeeEstimate
SyncFee ==
    /\ wpc = "fee"
    /\ \E ok \in BOOLEAN :
         /\ ok \/ MayFail
         /\ rpc' = Append(rpc, Call("fee", client, FALSE, 0, ok))
         /\ IF ok THEN Send(<<MsgFeeEstimate>>, "history", sync) ELSE Fail("rpc")
    /\ UNCHANGED <<session, ticker, cmdq, issued, passes, profile, electrum, client>>
    /\ UNCHANGED window

\* electrum.rs:300-318: the history records built from the answer
history_batch(chg, off) ==
    {[txid |-> r[2], index |-> r[1], ty |-> IF chg THEN "Change" ELSE "Incoming"] :
        r \in ServerHistory(profile, chg, off)}

\* electrum.rs:333-349: the unspent outputs built from the answer
utxos(chg, off) ==
    {[txid |-> r[2], height |-> r[5], vout |-> r[3], value |-> r[4], index |-> r[1],
      change |-> chg] :
        r \in ServerUnspent(profile, chg, off)}

\* electrum.rs:319  if history_batch.is_empty() { break upto }
ScanEnds(batch) == batch = {}

\* mutant of NextUpto: the least index of the batch
NextUptoMin(batch) == Min({item.index : item \in batch})

\* electrum.rs:322-326  upto = max of the indexes of the batch
NextUpto(batch) == Max({item.index : item \in batch})

\* chg is the last chain of the for loop
LastChain(chg) == chg = ChainOrder[Len(ChainOrder)]

\* the chain the for loop takes after chg
NextChain(chg) ==
    LET i == CHOOSE j \in 1..Len(ChainOrder) : ChainOrder[j] = chg
    IN  ChainOrder[i + 1]

\* electrum.rs:298  offset + 19 in u16: the sum is past the largest u16
UpperOverflows(offset) == offset + (WindowSize - 1) > U16Max

\* electrum.rs:297-331: one window: script_pubkeys, batch_script_get_history,
\* then break, or Msg::HistoryBatch.  When offset + 19 overflows, a build
\* with overflow checks panics (res = "panic"); a build without them wraps
\* the sum, the range offset..=(offset + 19) is empty, no script is derived
\* and the history batch is empty
SyncHistory ==
    /\ wpc = "history"
    /\ LET derive(ok) == Call("script_pubkeys", None, sync.change, sync.offset, ok)
           query(ok) == Call("history", client, sync.change, sync.offset, ok)
       IN  \E res \in {"ok", "derive_err", "rpc_err", "panic"} :
             CASE res = "panic" ->
                    /\ UpperOverflows(sync.offset)
                    /\ wpc' = "dead"
                    /\ sync' = SyncLocals
                    /\ UNCHANGED <<events, rpc>>
               [] res = "derive_err" ->
                    MayFail /\ rpc' = Append(rpc, derive(FALSE)) /\ Fail("derive")
               [] res = "rpc_err" ->
                    MayFail /\ rpc' = rpc \o <<derive(TRUE), query(FALSE)>> /\ Fail("rpc")
               [] res = "ok" ->
                    /\ rpc' = rpc \o <<derive(TRUE), query(TRUE)>>
                    /\ LET batch == IF UpperOverflows(sync.offset) THEN {}
                                    ELSE history_batch(sync.change, sync.offset)
                       IN  IF ScanEnds(batch)
                           THEN /\ events' = events
                                /\ IF LastChain(sync.change)
                                   THEN /\ wpc' = "tx"
                                        /\ sync' = [sync EXCEPT !.upto_index[sync.change] = sync.upto]
                                   ELSE /\ wpc' = "history"
                                        /\ sync' = [sync EXCEPT !.upto_index[sync.change] = sync.upto,
                                                                !.change = NextChain(sync.change),
                                                                !.offset = 0, !.upto = 0]
                           ELSE Send(<<MsgHistoryBatch(batch, sync.offset)>>, "utxo",
                                     [sync EXCEPT !.upto = NextUpto(batch),
                                                  !.txids = @ \cup {item.txid : item \in batch}])
    /\ UNCHANGED <<session, ticker, cmdq, issued, passes, profile, electrum, client>>
    /\ UNCHANGED window

\* mutant of SyncUtxo: an empty list of unspent outputs is not reported
SyncUtxoSkipsEmpty ==
    /\ wpc = "utxo"
    /\ \E ok \in BOOLEAN :
         /\ ok \/ MayFail
         /\ rpc' = Append(rpc, Call("unspent", client, sync.change, sync.offset, ok))
         /\ IF ok
            THEN LET batch == utxos(sync.change, sync.offset)
                 IN  Send(IF batch = {} THEN <<>> ELSE <<MsgUtxoBatch(batch, sync.offset)>>,
                          "history",
                          [sync EXCEPT !.txids = @ \cup {item.txid : item \in batch},
                                       !.offset = @ + WindowSize])
            ELSE Fail("rpc")
    /\ UNCHANGED <<session, ticker, cmdq, issued, passes, profile, electrum, client>>
    /\ UNCHANGED window

\* electrum.rs:333-355: batch_script_list_unspent, Msg::UtxoBatch, offset += 20
SyncUtxo ==
    /\ wpc = "utxo"
    /\ \E ok \in BOOLEAN :
         /\ ok \/ MayFail
         /\ rpc' = Append(rpc, Call("unspent", client, sync.change, sync.offset, ok))
         /\ IF ok
            THEN LET batch == utxos(sync.change, sync.offset)
                 IN  Send(<<MsgUtxoBatch(batch, sync.offset)>>, "history",
                          [sync EXCEPT !.txids = @ \cup {item.txid : item \in batch},
                                       !.offset = @ + WindowSize])
            ELSE Fail("rpc")
    /\ UNCHANGED <<session, ticker, cmdq, issued, passes, profile, electrum, client>>
    /\ UNCHANGED window

\* electrum.rs:368  (no + 1) as f32 / txids.len() as f32 / 20.0, as a fraction
Progress(n, len) == <<n + 1, len * ProgressDiv>>

\* electrum.rs:359-371: one chunk: batch_transaction_get and Msg::TxBatch
SyncTx ==
    /\ wpc = "tx"
    /\ sync.no < NumChunks(Cardinality(sync.txids))
    /\ \E ok \in BOOLEAN :
         /\ ok \/ MayFail
         /\ rpc' = Append(rpc, Call("transaction", client, FALSE, sync.no, ok))
         /\ IF ok
            THEN LET chunk == Chunk(sync.txids, sync.no)
                     progress == Progress(sync.no, Cardinality(sync.txids))
                 IN  Send(<<MsgTxBatch(chunk, progress[1], progress[2])>>, "tx",
                          [sync EXCEPT !.no = @ + 1])
            ELSE Fail("rpc")
    /\ UNCHANGED <<session, ticker, cmdq, issued, passes, profile, electrum, client>>
    /\ UNCHANGED window

\* electrum.rs:373-377: Msg::Complete and Ok(())
SyncComplete ==
    /\ wpc = "tx"
    /\ sync.no = NumChunks(Cardinality(sync.txids))
    /\ Send(<<MsgComplete>>, "recv", SyncLocals)
    /\ UNCHANGED <<session, ticker, cmdq, issued, rpc, passes, profile, electrum, client>>
    /\ UNCHANGED window

(***************************************************************************)
(* The block watcher thread and the wallet window.                         *)
(***************************************************************************)
\* mutant of Enqueue: a command already waiting is not queued again
EnqueueDedup(q, c) == IF \E i \in 1..Len(q) : q[i] = c THEN q ELSE Append(q, c)

\* mpsc::Sender::send on the command queue
Enqueue(q, c) == Append(q, c)

\* mutant of Tick: the block watcher ignores a failed send
TickOutlives ==
    /\ ticker = "alive"
    /\ IF wpc = "dead"
       THEN ticker' = ticker /\ cmdq' = cmdq
       ELSE Len(cmdq) < MaxQueue /\ cmdq' = Enqueue(cmdq, CmdPull) /\ ticker' = ticker
    /\ UNCHANGED <<session, issued, events, rpc, passes, profile, wpc, electrum, client, sync>>
    /\ UNCHANGED window

\* mutant of Tick: the block watcher waits until the worker is at rx.recv()
TickWaits ==
    /\ ticker = "alive"
    /\ wpc \in {"recv", "dead"}
    /\ IF wpc = "dead"
       THEN ticker' = "dead" /\ cmdq' = cmdq
       ELSE Len(cmdq) < MaxQueue /\ cmdq' = Enqueue(cmdq, CmdPull) /\ ticker' = ticker
    /\ UNCHANGED <<session, issued, events, rpc, passes, profile, wpc, electrum, client, sync>>
    /\ UNCHANGED window

\* electrum.rs:222-225: sleep(interval), then send(Cmd::Pull).expect(..)
Tick ==
    /\ ticker = "alive"
    /\ IF wpc = "dead"
       THEN ticker' = "dead" /\ cmdq' = cmdq
       ELSE Len(cmdq) < MaxQueue /\ cmdq' = Enqueue(cmdq, CmdPull) /\ ticker' = ticker
    /\ UNCHANGED <<session, issued, events, rpc, passes, profile, wpc, electrum, client, sync>>
    /\ UNCHANGED window

\* ElectrumWorker::cmd: self.tx.send(cmd).expect("Electrum thread is dead")
cmd(c) ==
    /\ session = "open"
    /\ IF wpc = "dead"
       THEN session' = "panicked" /\ cmdq' = cmdq /\ issued' = issued
       ELSE /\ Len(cmdq) < MaxQueue
            /\ cmdq' = Enqueue(cmdq, c)
            /\ session' = session
            /\ issued' = IF c.type = "Pull" THEN issued ELSE Append(issued, c)
    /\ UNCHANGED <<ticker, events, rpc, passes, profile, wpc, electrum, client, sync>>
    /\ UNCHANGED window

\* ElectrumWorker::sync (Msg::Refresh of the wallet window)
Sync == Len(issued) < MaxCmds /\ cmd(CmdSync)

\* ElectrumWorker::pull
Pull == session = "open" /\ cmd(CmdPull)

\* ElectrumWorker::update
Update == Len(issued) < MaxCmds /\ \E e \in Servers : cmd(CmdUpdate(e))

\* the wallet window's Component is dropped: its Channel (the receiving end
\* of the event channel) and its ElectrumWorker go with it
CloseSession ==
    /\ session = "open"
    /\ session' = "closed"
    /\ UNCHANGED <<ticker, cmdq, issued, events, rpc, passes, profile, wpc, electrum,
                   client, sync>>
    /\ UNCHANGED window

\* the WalletState of a new window, before any message is handled
EmptyWallet ==
    [last_block |-> "none", fees |-> FALSE, history |-> {}, utxos |-> {},
     transactions |-> {}, next_change_index |-> 0]

\* the window before it has handled a message: no ElectrumState set yet
WindowInit ==
    /\ handled = 0
    /\ seen = 0
    /\ electrum_state = [tag |-> "None", n |-> 0, den |-> 1]
    /\ shown = <<>>
    /\ wallet = EmptyWallet

\* no call of compose_psbt, no call of height_date_time_est
NoCompose ==
    [utxos |-> {}, beneficiaries |-> <<>>, fee_rate |-> 0, weights |-> 0,
     result |-> [kind |-> "None"]]

NoEst == [height |-> 0, now |-> 0, build |-> "debug", result |-> [kind |-> "None", time |-> 0]]

\* no UtxoBatch delivered again
NoApply == [batch |-> {}, times |-> 0, before |-> {}]

\* the payment dialog before a payment is composed: no launcher_stream, no
\* message shown, the dialog not hidden by a payment, nothing emitted to the
\* launcher
NoPay == [launcher_stream |-> FALSE, message |-> None, hidden |-> FALSE, emitted |-> <<>>]

\* no launcher window
NoLauncher ==
    [window_count |-> 0, visible |-> FALSE, quit |-> FALSE, underflow |-> FALSE,
     stream |-> <<>>, wallets |-> <<>>]

NoCalls ==
    /\ compose = NoCompose
    /\ est = NoEst
    /\ apply = NoApply
    /\ pay = NoPay
    /\ launcher = NoLauncher

\* electrum.rs:174-233: the state when ElectrumWorker::with returns: both
\* threads spawned, the worker thread about to call electrum_init
Init ==
    /\ session = "open"
    /\ ticker = "alive"
    /\ cmdq = <<>>
    /\ issued = <<>>
    /\ events = <<>>
    /\ rpc = <<>>
    /\ passes = 0
    /\ profile \in Profiles
    /\ wpc = "init"
    /\ electrum = "e1"
    /\ client = None
    /\ sync = SyncLocals
    /\ WindowInit
    /\ NoCalls

Next ==
    \/ WorkerInit
    \/ WorkerRecv
    \/ SyncSubscribe
    \/ SyncFee
    \/ SyncHistory
    \/ SyncUtxo
    \/ SyncTx
    \/ SyncComplete
    \/ Tick
    \/ Sync
    \/ Pull
    \/ Update
    \/ CloseSession

Spec == Init /\ [][Next]_vars

\* a Pull handled with a client whose block_headers_pop returns a header or
\* fails
PullAnswered ==
    /\ client # None
    /\ cmdq # <<>>
    /\ Head(cmdq).type = "Pull"
    /\ WorkerRecv
    /\ (events' # events \/ wpc' = "dead")

\* both threads are scheduled: the worker takes its next step when it has
\* one, the block watcher wakes up from its sleep; and a client that is
\* polled again and again does not find its queue of headers empty for ever
FairSpec ==
    /\ Spec
    /\ WF_vars(WorkerInit) /\ WF_vars(WorkerRecv)
    /\ WF_vars(SyncSubscribe) /\ WF_vars(SyncFee)
    /\ WF_vars(SyncHistory) /\ WF_vars(SyncUtxo)
    /\ WF_vars(SyncTx) /\ WF_vars(SyncComplete)
    /\ WF_vars(Tick)
    /\ SF_vars(PullAnswered)

(***************************************************************************)
(* The wallet window (view/wallet/component.rs): it creates the worker,    *)
(* sends the first Sync, and handles the messages of the event channel in  *)
(* the order they were sent.                                               *)
(***************************************************************************)
\* an ElectrumState: its tag, and the counter of RetrievingHistory or the
\* fraction n/den of RetrievingTransactions
State(tag, n, den) == [tag |-> tag, n |-> n, den |-> den]

\* mutant of handle_state: LastBlockUpdate sets the state as LastBlock does
handle_state_tip(st, msg) ==
    CASE msg.type = "Connecting" -> State("Connecting", 0, 1)
      [] msg.type = "Connected" -> State("QueryingBlockchainState", 0, 1)
      [] msg.type \in {"LastBlock", "LastBlockUpdate"} -> State("RetrievingFees", 0, 1)
      [] msg.type = "FeeEstimate" -> State("RetrievingHistory", 0, 1)
      [] msg.type = "HistoryBatch" -> State("RetrievingHistory", msg.no * 2, 1)
      [] msg.type = "UtxoBatch" -> State("RetrievingHistory", msg.no * 2 + 1, 1)
      [] msg.type = "TxBatch" -> State("RetrievingTransactions", msg.num, msg.den)
      [] msg.type = "Complete" -> State("Complete", 0, 1)
      [] msg.type = "Error" -> State("Error", 0, 1)
      [] OTHER -> st

\* handle_electrum: the argument of update_electrum_state for each message
\* (st, the state as it is, where the arm does not call it)
handle_state(st, msg) ==
    CASE msg.type = "Connecting" -> State("Connecting", 0, 1)
      [] msg.type = "Connected" -> State("QueryingBlockchainState", 0, 1)
      [] msg.type = "LastBlock" -> State("RetrievingFees", 0, 1)
      [] msg.type = "LastBlockUpdate" -> st
      [] msg.type = "FeeEstimate" -> State("RetrievingHistory", 0, 1)
      [] msg.type = "HistoryBatch" -> State("RetrievingHistory", msg.no * 2, 1)
      [] msg.type = "UtxoBatch" -> State("RetrievingHistory", msg.no * 2 + 1, 1)
      [] msg.type = "TxBatch" -> State("RetrievingTransactions", msg.num, msg.den)
      [] msg.type = "Complete" -> State("Complete", 0, 1)
      [] msg.type = "Error" -> State("Error", 0, 1)
      [] OTHER -> st

\* the methods of Wallet that handle_electrum and update_pay call
update_last_block(w, tip) == [w EXCEPT !.last_block = tip]

update_fees(w) == [w EXCEPT !.fees = TRUE]

update_history(w, batch) == [w EXCEPT !.history = @ \cup batch]

\* electrum.rs:133-136  UtxoTxid::outpoint
outpoint(u) == <<u.txid, u.vout>>

\* the UTXO set is a mapping from outpoints: a record of the batch takes the
\* place of the record the wallet holds for its outpoint
update_utxos(w, batch) ==
    [w EXCEPT !.utxos =
        {u \in @ : \A b \in batch : outpoint(b) # outpoint(u)} \cup batch]

update_transactions(w, batch) == [w EXCEPT !.transactions = @ \cup batch]

update_next_change_index(w, index) ==
    [w EXCEPT !.next_change_index = IF index >= @ THEN index + 1 ELSE @]

\* mutant of handle_wallet: the history of the wallet is dropped when a pass
\* begins
handle_wallet_clears(w, msg) ==
    CASE msg.type = "Connecting" -> [w EXCEPT !.history = {}]
      [] msg.type = "HistoryBatch" -> update_history(w, msg.batch)
      [] OTHER -> w

\* mutant of handle_wallet: a UtxoBatch takes out of the wallet the records
\* the wallet already holds
handle_wallet_toggles(w, msg) ==
    CASE msg.type = "UtxoBatch" ->
            [w EXCEPT !.utxos = (@ \ msg.batch) \cup (msg.batch \ @)]
      [] OTHER -> w

\* handle_electrum: what each message does to the WalletState
handle_wallet(w, msg) ==
    CASE msg.type = "LastBlock" -> update_last_block(w, "tip")
      [] msg.type = "LastBlockUpdate" -> update_last_block(w, "update")
      [] msg.type = "FeeEstimate" -> update_fees(w)
      [] msg.type = "HistoryBatch" -> update_history(w, msg.batch)
      [] msg.type = "UtxoBatch" -> update_utxos(w, msg.batch)
      [] msg.type = "TxBatch" -> update_transactions(w, msg.batch)
      [] OTHER -> w

\* the place in events of the message the window handles next
NextMsg == IF seen = passes THEN handled + 1 ELSE 1

\* the window has handled every message sent
Drained == seen = passes /\ handled = Len(events)

\* Msg::ElectrumWatch(msg): handle_electrum on the next message of the channel
Handle ==
    /\ session = "open"
    /\ NextMsg <= Len(events)
    /\ LET msg == events[NextMsg]
           st == handle_state(electrum_state, msg)
       IN  /\ handled' = NextMsg
           /\ seen' = passes
           /\ electrum_state' = st
           /\ shown' = CASE msg.type = "Connecting" -> <<st>>
                         [] msg.type \in {"LastBlockUpdate", "ChannelDisconnected"} -> shown
                         [] OTHER -> Append(shown, st)
           /\ wallet' = handle_wallet(wallet, msg)
           /\ session' = IF msg.type = "ChannelDisconnected" THEN "panicked" ELSE session
    /\ UNCHANGED <<ticker, cmdq, issued, events, rpc, passes, profile, wpc, electrum,
                   client, sync, compose, est, apply, pay, launcher>>

(***************************************************************************)
(* compose_psbt (component.rs:66-157).                                     *)
(***************************************************************************)
\* the total value of a set of unspent outputs
RECURSIVE TotalValue(_)
TotalValue(S) ==
    IF S = {} THEN 0
    ELSE LET u == CHOOSE x \in S : TRUE IN u.value + TotalValue(S \ {u})

\* component.rs:72-87: the sum of the amounts of the beneficiaries
RECURSIVE OutputValue(_)
OutputValue(bs) == IF bs = <<>> THEN 0 ELSE Head(bs).amount + OutputValue(Tail(bs))

\* Wallet::coinselect(value): Some set of prevouts worth at least value, the
\* fewest that do, or None (some = FALSE) when the wallet does not hold
\* that much
coinselect(S, value) ==
    LET covers == {sel \in SUBSET S : TotalValue(sel) >= value}
    IN  IF covers = {} THEN [some |-> FALSE, prevouts |-> {}]
        ELSE [some |-> TRUE,
              prevouts |-> CHOOSE sel \in covers :
                               \A other \in covers : Cardinality(sel) <= Cardinality(other)]

\* Transaction::vsize of the draft: version, lock_time and the two counts,
\* 41 bytes for an input without script_sig and witness, 31 bytes for an
\* output paying to a 22-byte script_pubkey
vsize(nin, nout) == 10 + 41 * nin + 31 * nout

\* component.rs:122-123: (fee_rate * (vsize + weights / 4)).ceil()
NextFee(fee_rate, nin, nout, weights) ==
    (fee_rate * (WITNESS_SCALE_FACTOR * vsize(nin, nout) + weights)
        + WITNESS_SCALE_FACTOR - 1) \div WITNESS_SCALE_FACTOR

\* component.rs:95-99: the locals of the fee loop before the loop
FeeLocals ==
    [fee |-> DUST_RELAY_TX_FEE, next_fee |-> DUST_RELAY_TX_FEE, prevouts |-> {},
     cycle_lim |-> 0, asked |-> <<>>, err |-> None]

\* component.rs:100  while fee <= DUST_RELAY_TX_FEE && fee != next_fee
FeeLoopGoesOn(l) == l.fee <= DUST_RELAY_TX_FEE /\ l.fee # l.next_fee

\* component.rs:100-128: the fee loop: the locals when it is left, err set
\* when it is left by a return
RECURSIVE FeeLoop(_, _, _, _, _, _)
FeeLoop(l, S, output_value, nout, fee_rate, weights) ==
    IF ~FeeLoopGoesOn(l) THEN l
    ELSE LET fee == l.next_fee
             sel == coinselect(S, output_value + fee)
             asked == Append(l.asked, output_value + fee)
         IN  IF ~sel.some
             THEN [l EXCEPT !.fee = fee, !.asked = asked, !.err = "InsufficientFunds"]
             ELSE LET m == [l EXCEPT !.fee = fee, !.asked = asked, !.prevouts = sel.prevouts,
                                     !.next_fee = NextFee(fee_rate, Cardinality(sel.prevouts), nout, weights),
                                     !.cycle_lim = @ + 1]
                  IN  IF m.cycle_lim > CycleLimit
                      THEN [m EXCEPT !.err = "FeeFailure"]
                      ELSE FeeLoop(m, S, output_value, nout, fee_rate, weights)

\* Psbt::construct: the inputs have to cover the outputs and the fee
construct(prevouts, output_value, fee) ==
    IF TotalValue(prevouts) >= output_value + fee THEN "Psbt" ELSE "ConstructError"

\* compose_psbt on the unspent outputs S of the wallet: what it returns
\* (kind), with the fee, the prevouts, the number of turns of the loop and
\* the values asked of coinselect
compose_psbt(S, beneficiaries, fee_rate, weights, change_index) ==
    LET failed(kind) ==
            [kind |-> kind, fee |-> 0, prevouts |-> {}, cycle_lim |-> 0, asked |-> <<>>,
             change_index |-> change_index]
    IN  IF \E i \in 1..Len(beneficiaries) : ~beneficiaries[i].valid
        THEN failed("BeneficiaryError")
        ELSE LET output_value == OutputValue(beneficiaries)
                 l == FeeLoop(FeeLocals, S, output_value, Len(beneficiaries), fee_rate, weights)
             IN  [kind |-> IF l.err # None THEN l.err
                           ELSE construct(l.prevouts, output_value, l.fee),
                  fee |-> l.fee, prevouts |-> l.prevouts, cycle_lim |-> l.cycle_lim,
                  asked |-> l.asked, change_index |-> change_index]

\* a beneficiary row: its amount in satoshis, and whether its address and
\* amount parse
Beneficiary(valid, amount) == [valid |-> valid, amount |-> amount]

\* the beneficiary lists, fee rates (sat/vbyte) and maximal satisfaction
\* weights the calls are made with
BeneficiaryLists ==
    {<<Beneficiary(TRUE, 2000)>>, <<Beneficiary(TRUE, 10000)>>,
     <<Beneficiary(TRUE, 60000), Beneficiary(TRUE, 70000)>>,
     <<Beneficiary(FALSE, 0)>>, <<>>}

FeeRates == {1, 5}

Weights == {108, 273}

\* sync_pay (component.rs:159-170) on the result r of compose_psbt:
\* hide_message for a PSBT, show_error for an error
sync_pay(p, r) == [p EXCEPT !.message = IF r.kind = "Psbt" THEN None ELSE r.kind]

\* launcher_stream.as_ref().map(|stream| stream.emit(msg))
emit(p, msg) == IF p.launcher_stream THEN [p EXCEPT !.emitted = Append(@, msg)] ELSE p

\* mutant of Pay: the change index is recorded whatever compose_psbt returns
PayRecordsAnyway ==
    /\ session = "open"
    /\ wallet.next_change_index < MaxPays
    /\ \E bs \in BeneficiaryLists, fee_rate \in FeeRates, weights \in Weights :
         LET r == compose_psbt(wallet.utxos, bs, fee_rate, weights, wallet.next_change_index)
         IN  /\ wallet' = update_next_change_index(wallet, r.change_index)
             /\ pay' = sync_pay(pay, r)
    /\ UNCHANGED <<session, ticker, cmdq, issued, events, rpc, passes, profile, wpc,
                   electrum, client, sync, handled, seen, electrum_state, shown,
                   compose, est, apply, launcher>>

\* pay::Msg::Response(ResponseType::Ok) (component.rs:329-350): sync_pay
\* calls compose_psbt; on an error the handler returns; on a PSBT the dialog
\* is hidden, CreatePsbt is emitted to the launcher and the change index is
\* recorded in the wallet
Pay ==
    /\ session = "open"
    /\ wallet.next_change_index < MaxPays
    /\ \E bs \in BeneficiaryLists, fee_rate \in FeeRates, weights \in Weights :
         LET r == compose_psbt(wallet.utxos, bs, fee_rate, weights, wallet.next_change_index)
         IN  IF r.kind = "Psbt"
             THEN /\ pay' = emit([sync_pay(pay, r) EXCEPT !.hidden = TRUE], "CreatePsbt")
                  /\ wallet' = update_next_change_index(wallet, r.change_index)
             ELSE /\ pay' = sync_pay(pay, r)
                  /\ wallet' = wallet
    /\ UNCHANGED <<session, ticker, cmdq, issued, events, rpc, passes, profile, wpc,
                   electrum, client, sync, handled, seen, electrum_state, shown,
                   compose, est, apply, launcher>>

\* Msg::Refresh: self.electrum_worker.sync()
Refresh == Len(issued) <= MaxRefresh /\ cmd(CmdSync)

\* the worker loop while the window keeps up: a pass begins when the window
\* has handled the messages sent before it
WindowWorkerRecv ==
    /\ (cmdq # <<>> /\ Head(cmdq).type = "Sync" /\ client # None) => Drained
    /\ WorkerRecv

\* component.rs:393-428: the state when Component::view has returned, the
\* worker created and the first Sync sent, and the window has handled the
\* RegisterLauncher that open_wallet emits right after (launch
\* component.rs:36-42)
WindowSpecInit ==
    /\ session = "open"
    /\ ticker = "alive"
    /\ cmdq = <<CmdSync>>
    /\ issued = <<CmdSync>>
    /\ events = <<>>
    /\ rpc = <<>>
    /\ passes = 0
    /\ profile \in Profiles
    /\ wpc = "init"
    /\ electrum = "e1"
    /\ client = None
    /\ sync = SyncLocals
    /\ WindowInit
    /\ compose = NoCompose
    /\ est = NoEst
    /\ apply = NoApply
    /\ pay = [NoPay EXCEPT !.launcher_stream = TRUE]
    /\ launcher = NoLauncher

WindowNext ==
    \/ WorkerInit
    \/ WindowWorkerRecv
    \/ SyncSubscribe
    \/ SyncFee
    \/ SyncHistory
    \/ SyncUtxo
    \/ SyncTx
    \/ SyncComplete
    \/ Tick
    \/ Refresh
    \/ Handle
    \/ Pay

\* the worker, the block watcher and the wallet window that owns them
WindowSpec == WindowSpecInit /\ [][WindowNext]_vars

(***************************************************************************)
(* Calls of compose_psbt on wallets of every balance.                      *)
(***************************************************************************)
\* no wallet session is running
NoSession ==
    /\ session = "closed"
    /\ ticker = "dead"
    /\ cmdq = <<>>
    /\ issued = <<>>
    /\ events = <<>>
    /\ rpc = <<>>
    /\ passes = 0
    /\ profile = "used"
    /\ wpc = "dead"
    /\ electrum = "e1"
    /\ client = None
    /\ sync = SyncLocals
    /\ WindowInit

\* the unspent outputs a wallet may hold: those of the service
UtxoSets ==
    SUBSET UNION {utxos(chg, off) : chg \in BOOLEAN, off \in {0, WindowSize}}

ComposeInit ==
    /\ NoSession
    /\ est = NoEst
    /\ apply = NoApply
    /\ pay = NoPay
    /\ launcher = NoLauncher
    /\ \E S \in UtxoSets, bs \in BeneficiaryLists, fee_rate \in FeeRates,
          weights \in Weights :
          compose = [utxos |-> S, beneficiaries |-> bs, fee_rate |-> fee_rate,
                     weights |-> weights, result |-> [kind |-> "None"]]

\* the call returns
ComposePsbt ==
    /\ compose.result.kind = "None"
    /\ compose' = [compose EXCEPT !.result =
                      compose_psbt(compose.utxos, compose.beneficiaries, compose.fee_rate,
                                   compose.weights, 0)]
    /\ UNCHANGED <<session, ticker, cmdq, issued, events, rpc, passes, profile, wpc,
                   electrum, client, sync, handled, seen, electrum_state, shown, wallet,
                   est, apply, pay, launcher>>

ComposeSpec == ComposeInit /\ [][ComposePsbt]_vars

(***************************************************************************)
(* The scan of a chain that has history in every window.                   *)
(***************************************************************************)
\* the scan starts from one of the last ScanTail windows below the last one
ScanTail == 24

\* the last window whose offset is a u16
LastWindow == U16Max \div WindowSize

\* electrum.rs:297-355 taken k times on the Change chain: the messages sent
ScannedEvents(k) ==
    [i \in 1..(2 * k) |->
        LET off == ((i - 1) \div 2) * WindowSize
        IN  IF i % 2 = 1 THEN MsgHistoryBatch(history_batch(TRUE, off), off)
            ELSE MsgUtxoBatch(utxos(TRUE, off), off)]

\* electrum.rs:297-355 taken k times on the Change chain: the calls made
ScannedCalls(k) ==
    [i \in 1..(3 * k) |->
        LET off == ((i - 1) \div 3) * WindowSize
        IN  CASE i % 3 = 1 -> Call("script_pubkeys", None, TRUE, off, TRUE)
              [] i % 3 = 2 -> Call("history", client, TRUE, off, TRUE)
              [] OTHER -> Call("unspent", client, TRUE, off, TRUE)]

\* the worker is in its first pass, at the top of the loop of the Change
\* chain, and the service has had history in each of the k windows scanned
\* so far: what k turns of SyncHistory and SyncUtxo leave behind
ScanInit ==
    /\ session = "open"
    /\ ticker = "alive"
    /\ cmdq = <<>>
    /\ issued = <<CmdSync>>
    /\ passes = 1
    /\ profile = "endless"
    /\ wpc = "history"
    /\ electrum = "e1"
    /\ client = "e1"
    /\ \E k \in (LastWindow - ScanTail)..LastWindow :
         /\ events = <<MsgConnecting, MsgConnected, MsgLastBlock, MsgFeeEstimate>>
                        \o ScannedEvents(k)
         /\ rpc = <<Call("subscribe", client, FALSE, 0, TRUE),
                    Call("fee", client, FALSE, 0, TRUE)>> \o ScannedCalls(k)
         /\ sync = [SyncLocals EXCEPT !.offset = k * WindowSize,
                                      !.upto = (k - 1) * WindowSize,
                                      !.txids = {1}]
    /\ WindowInit
    /\ NoCalls

\* the rest of the pass
ScanNext ==
    \/ SyncHistory
    \/ SyncUtxo
    \/ SyncTx
    \/ SyncComplete

ScanSpec == ScanInit /\ [][ScanNext]_vars

(***************************************************************************)
(* A UtxoBatch handled more than once (a window is sent the unspent        *)
(* outputs of the same scripts again in every pass).                       *)
(***************************************************************************)
\* the times the batch is delivered
MaxDeliveries == 2

\* the records the service may return for its unspent outputs: as they are,
\* or not yet confirmed, or confirmed one block later
UtxoRecords ==
    UNION {{u, [u EXCEPT !.height = 0], [u EXCEPT !.height = @ + 1]} :
              u \in UNION {utxos(chg, off) : chg \in BOOLEAN, off \in {0, WindowSize}}}

\* the sets of records with one record per outpoint: the UTXO sets of a
\* wallet, and the batches (the service lists an output once)
OnePerOutpoint(S) == \A u, v \in S : outpoint(u) = outpoint(v) => u = v

UtxoStates == {S \in SUBSET UtxoRecords : OnePerOutpoint(S)}

\* a window between two passes of an idle worker
ApplyInit ==
    /\ session = "open"
    /\ ticker = "alive"
    /\ cmdq = <<>>
    /\ issued = <<>>
    /\ events = <<>>
    /\ rpc = <<>>
    /\ passes = 0
    /\ profile = "used"
    /\ wpc = "recv"
    /\ electrum = "e1"
    /\ client = "e1"
    /\ sync = SyncLocals
    /\ handled = 0
    /\ seen = 0
    /\ electrum_state = State("Complete", 0, 1)
    /\ shown = <<>>
    /\ compose = NoCompose
    /\ est = NoEst
    /\ pay = NoPay
    /\ launcher = NoLauncher
    /\ \E W \in UtxoStates, B \in UtxoStates :
          /\ wallet = [EmptyWallet EXCEPT !.utxos = W]
          /\ apply = [batch |-> B, times |-> 0, before |-> W]

\* handle_electrum on Msg::UtxoBatch(batch, 0)
ApplyUtxoBatch ==
    /\ apply.times < MaxDeliveries
    /\ LET msg == MsgUtxoBatch(apply.batch, 0)
           st == handle_state(electrum_state, msg)
       IN  /\ electrum_state' = st
           /\ shown' = Append(shown, st)
           /\ wallet' = handle_wallet(wallet, msg)
    /\ apply' = [apply EXCEPT !.times = @ + 1]
    /\ UNCHANGED <<session, ticker, cmdq, issued, events, rpc, passes, profile, wpc,
                   electrum, client, sync, handled, seen, compose, est, pay, launcher>>

ApplySpec == ApplyInit /\ [][ApplyUtxoBatch]_vars

(***************************************************************************)
(* height_date_time_est (electrum.rs:381-391).                             *)
(***************************************************************************)
\* the largest and the least i32: height, reference_height, reference_time,
\* height_diff and timestamp are i32
I32Max == 2147483647

I32Min == -I32Max - 1

\* half a word: the products are computed on 16-bit halves
Half == 65536

reference_height == 733961

reference_time == 1651158666

\* seconds a block is taken to last
BlockInterval == 600

\* cargo's profiles: overflow-checks is on in a debug build (an overflowing
\* operation panics) and off in a release build (it wraps)
Builds == {"debug", "release"}

\* the i32 with the 16-bit halves hi and lo
FromHalves(hi, lo) == IF hi >= Half \div 2 THEN (hi - Half) * Half + lo ELSE hi * Half + lo

\* x * k of i32 with overflow not checked (x * k modulo 2^32), for x >= 0
\* and 0 <= k < 2^15
WrappingMul(x, k) ==
    LET low == (x % Half) * k
        high == (x \div Half) * k + low \div Half
    IN  FromHalves(high % Half, low % Half)

\* x + y of i32 with overflow not checked, for x >= 0
WrappingAdd(x, y) ==
    IF y > I32Max - x THEN I32Min + (y - (I32Max - x) - 1) ELSE x + y

\* height_date_time_est(height) at the clock time now: Local::now() for a
\* height of 0 or less, else the time of timestamp.  height_diff is at
\* least 1 - reference_height, so the subtraction of line 387 stays in i32
\* and the operations of line 388 can only overflow upwards
height_date_time_est(height, now, build) ==
    IF height <= 0 THEN [kind |-> "Now", time |-> now]
    ELSE LET height_diff == height - reference_height
             mul_overflows == height_diff > I32Max \div BlockInterval
             product == IF mul_overflows THEN WrappingMul(height_diff, BlockInterval)
                        ELSE height_diff * BlockInterval
             add_overflows == product > I32Max - reference_time
             timestamp == WrappingAdd(reference_time, product)
         IN  IF (mul_overflows \/ add_overflows) /\ build = "debug"
             THEN [kind |-> "Panic", time |-> 0]
             ELSE [kind |-> "Time", time |-> timestamp]

\* the first height whose timestamp is past i32, and the first whose
\* height_diff * 600 is
FirstOverflow == reference_height + (I32Max - reference_time) \div BlockInterval + 1

FirstMulOverflow == reference_height + I32Max \div BlockInterval + 1

\* the heights the function is called with: UtxoTxid::date_time_est passes
\* self.height as i32, so every i32 can arrive
Heights ==
    {I32Min, I32Min + 1, -1, 0, 1, 2, reference_height - 1, reference_height,
     reference_height + 1, FirstOverflow - 2, FirstOverflow - 1, FirstOverflow,
     FirstOverflow + 1, 2 * FirstOverflow, FirstMulOverflow - 1, FirstMulOverflow,
     I32Max - 1, I32Max}

\* the readings of the clock
Clocks == {reference_time + 1, reference_time + BlockInterval}

EstInit ==
    /\ NoSession
    /\ compose = NoCompose
    /\ apply = NoApply
    /\ pay = NoPay
    /\ launcher = NoLauncher
    /\ \E height \in Heights, now \in Clocks, build \in Builds :
          est = [height |-> height, now |-> now, build |-> build,
                 result |-> [kind |-> "None", time |-> 0]]

\* the call returns, or panics
HeightDateTimeEst ==
    /\ est.result.kind = "None"
    /\ est' = [est EXCEPT !.result = height_date_time_est(est.height, est.now, est.build)]
    /\ UNCHANGED <<session, ticker, cmdq, issued, events, rpc, passes, profile, wpc,
                   electrum, client, sync, handled, seen, electrum_state, shown, wallet,
                   compose, apply, pay, launcher>>

EstSpec == EstInit /\ [][HeightDateTimeEst]_vars

(***************************************************************************)
(* The launcher and the wallet windows it opens.  Every handler runs on    *)
(* the GTK main thread; a message emitted on a relm stream is queued and   *)
(* handled later, in the order of the stream.                              *)
(***************************************************************************)
\* the wallet windows the launcher opens, the messages waiting in a stream
MaxWindows == 2

MaxPending == 2

\* everything but the launcher
NoWindow ==
    /\ NoSession
    /\ compose = NoCompose
    /\ est = NoEst
    /\ apply = NoApply
    /\ pay = NoPay

\* launch/component.rs:140-164  view: widgets.show(), window_count: 0
LauncherInit ==
    /\ NoWindow
    /\ launcher = [NoLauncher EXCEPT !.visible = TRUE]

\* wallet/component.rs:244-252, 393-428: init::<wallet::Component>(path):
\* model() emits FileError on the stream of the new window when the file
\* cannot be read, view() shows the window with launcher_stream: None
init_wallet(file_ok) ==
    [open |-> TRUE, launcher_stream |-> FALSE, sent |-> 0,
     stream |-> IF file_ok THEN <<>> ELSE <<"FileError">>]

\* launch/component.rs:36-42  open_wallet: the window is created, counted,
\* sent RegisterLauncher and kept
open_wallet(l, file_ok) ==
    LET w == init_wallet(file_ok)
    IN  [l EXCEPT !.window_count = @ + 1,
                  !.wallets = Append(@, [w EXCEPT !.stream = Append(@, "RegisterLauncher")])]

\* launch/component.rs:96-106, 118-126: Msg::Wallet and Msg::Recent hide the
\* launcher and open the wallet; Msg::WalletCreated and Msg::OpenWallet open it
OpenWallet ==
    /\ ~launcher.quit
    /\ Len(launcher.wallets) < MaxWindows
    /\ \E msg \in {"Wallet", "Recent", "WalletCreated", "OpenWallet"}, file_ok \in BOOLEAN :
         /\ msg = "Recent" => launcher.visible
         /\ launcher' =
              open_wallet(IF msg \in {"Wallet", "Recent"}
                          THEN [launcher EXCEPT !.visible = FALSE] ELSE launcher,
                          file_ok)
    /\ UNCHANGED <<session, ticker, cmdq, issued, events, rpc, passes, profile, wpc,
                   electrum, client, sync, handled, seen, electrum_state, shown, wallet,
                   compose, est, apply, pay>>

\* launch/component.rs:67-73  Msg::Close of the launcher window
LauncherClose ==
    /\ ~launcher.quit
    /\ launcher.visible
    /\ launcher' = IF launcher.window_count = 0
                   THEN [launcher EXCEPT !.quit = TRUE]
                   ELSE [launcher EXCEPT !.visible = FALSE]
    /\ UNCHANGED <<session, ticker, cmdq, issued, events, rpc, passes, profile, wpc,
                   electrum, client, sync, handled, seen, electrum_state, shown, wallet,
                   compose, est, apply, pay>>

\* launch/component.rs:74-80  Msg::WalletClosed: window_count -= 1 in usize
\* (an overflow when it is 0), and the launcher is shown at 0
WalletClosed(l) ==
    IF l.window_count = 0
    THEN [l EXCEPT !.underflow = TRUE]
    ELSE [l EXCEPT !.window_count = @ - 1,
                   !.visible = IF l.window_count = 1 THEN TRUE ELSE @]

\* launch/component.rs:64-80: the launcher handles the next message of its
\* stream: Show or WalletClosed
LauncherUpdate ==
    /\ ~launcher.quit
    /\ launcher.stream # <<>>
    /\ LET l == [launcher EXCEPT !.stream = Tail(@)]
       IN  launcher' = CASE Head(launcher.stream) = "Show" -> [l EXCEPT !.visible = TRUE]
                         [] Head(launcher.stream) = "WalletClosed" -> WalletClosed(l)
    /\ UNCHANGED <<session, ticker, cmdq, issued, events, rpc, passes, profile, wpc,
                   electrum, client, sync, handled, seen, electrum_state, shown, wallet,
                   compose, est, apply, pay>>

\* wallet/component.rs:47-52  close of window i: widgets.close(), and
\* WalletClosed to the launcher when launcher_stream is set
close(l, i) ==
    IF l.wallets[i].launcher_stream
    THEN [l EXCEPT !.wallets[i].open = FALSE, !.wallets[i].sent = @ + 1,
                   !.stream = Append(@, "WalletClosed")]
    ELSE [l EXCEPT !.wallets[i].open = FALSE]

\* a window that is open and has handled its messages gets Msg::Close or
\* Msg::New from its user
WalletInput ==
    /\ ~launcher.quit
    /\ \E i \in 1..Len(launcher.wallets), msg \in {"Close", "New"} :
         /\ launcher.wallets[i].open
         /\ launcher.wallets[i].stream = <<>>
         /\ launcher' = [launcher EXCEPT !.wallets[i].stream = Append(@, msg)]
    /\ UNCHANGED <<session, ticker, cmdq, issued, events, rpc, passes, profile, wpc,
                   electrum, client, sync, handled, seen, electrum_state, shown, wallet,
                   compose, est, apply, pay>>

\* wallet/component.rs:254-316: window i handles the next message of its
\* stream: New, Close, FileError or RegisterLauncher
WalletUpdate ==
    /\ ~launcher.quit
    /\ \E i \in 1..Len(launcher.wallets) :
         /\ launcher.wallets[i].stream # <<>>
         /\ LET msg == Head(launcher.wallets[i].stream)
                l == [launcher EXCEPT !.wallets[i].stream = Tail(@)]
            IN  CASE msg = "New" ->
                       /\ l.wallets[i].launcher_stream => Len(l.stream) < MaxPending
                       /\ launcher' = IF l.wallets[i].launcher_stream
                                      THEN [l EXCEPT !.stream = Append(@, "Show")]
                                      ELSE l
                  [] msg = "RegisterLauncher" ->
                       launcher' = [l EXCEPT !.wallets[i].launcher_stream = TRUE]
                  [] msg \in {"Close", "FileError"} ->
                       launcher' = close(l, i)
    /\ UNCHANGED <<session, ticker, cmdq, issued, events, rpc, passes, profile, wpc,
                   electrum, client, sync, handled, seen, electrum_state, shown, wallet,
                   compose, est, apply, pay>>

LauncherNext ==
    \/ OpenWallet
    \/ LauncherClose
    \/ LauncherUpdate
    \/ WalletInput
    \/ WalletUpdate

LauncherSpec == LauncherInit /\ [][LauncherNext]_vars

(***************************************************************************)
(* The event stream read as full-sync passes.  A pass starts at a          *)
(* Connecting message and runs to the first Complete or Error after it     *)
(* (or to the end of the stream while it is under way).  The variable      *)
(* events holds the stream from the latest pass on.                        *)
(***************************************************************************)
SyncStates == {"subscribe", "fee", "history", "utxo", "tx"}

PassStarts == {i \in 1..Len(events) : events[i].type = "Connecting"}

IsPassEnd(e) == e.type \in {"Complete", "Error"}

PassEnd(i) ==
    LET ends == {j \in (i + 1)..Len(events) : IsPassEnd(events[j])}
    IN  IF ends = {} THEN Len(events) ELSE Min(ends)

\* the chain a HistoryBatch message is about: the ty of its records
OfChange(e) == \E item \in e.batch : item.ty = "Change"

\* message b may directly follow message a within one pass
Follows(a, b) ==
    CASE a.type = "Connecting" -> b.type = "Connected"
      [] a.type = "Connected" -> b.type \in {"LastBlock", "Error"}
      [] a.type = "LastBlock" -> b.type \in {"FeeEstimate", "Error"}
      [] a.type = "FeeEstimate" -> b.type \in {"HistoryBatch", "Complete", "Error"}
      [] a.type = "HistoryBatch" ->
            \/ b.type = "UtxoBatch" /\ b.no = a.no
            \/ b.type = "Error"
      [] a.type = "UtxoBatch" -> b.type \in {"HistoryBatch", "TxBatch", "Complete", "Error"}
      [] a.type = "TxBatch" -> b.type \in {"TxBatch", "Complete", "Error"}
      [] OTHER -> FALSE

\* C1: every full-sync pass emits Connecting, Connected, LastBlock,
\* FeeEstimate, the HistoryBatch/UtxoBatch pairs of the Change chain, those of
\* the Receiving chain, the TxBatch messages and one final Complete, in this
\* order; an aborted pass emits a prefix of that followed by Error; and a
\* pass the worker has left has ended with Complete or Error.
C1_PassOrder ==
    \A i \in PassStarts :
        /\ \A k \in i..(PassEnd(i) - 1) : Follows(events[k], events[k + 1])
        /\ \A k, l \in i..PassEnd(i) :
              (k < l /\ events[k].type = "HistoryBatch" /\ events[l].type = "HistoryBatch")
                  => (OfChange(events[k]) \/ ~OfChange(events[l]))
        /\ (wpc = "recv" \/ PassEnd(i) < Len(events)) => IsPassEnd(events[PassEnd(i)])

\* C1 witness: a pass with batches of both chains and two TxBatch messages
\* has reached Complete
C1_Witness ==
    /\ Len(events) > 0
    /\ events[Len(events)].type = "Complete"
    /\ Count(events, "TxBatch") = 2
    /\ \E k, l \in 1..Len(events) :
          /\ events[k].type = "HistoryBatch" /\ OfChange(events[k])
          /\ events[l].type = "HistoryBatch" /\ ~OfChange(events[l])

(***************************************************************************)
(* The address scanner.                                                    *)
(***************************************************************************)
Windows == {k * WindowSize : k \in 0..3}

\* the first window of the chain for which the service holds no history
FirstEmpty(chg) == Min({o \in Windows : ServerHistory(profile, chg, o) = {}})

\* the derivation indexes of the history of the windows before FirstEmpty
SeenIndexes(chg) ==
    UNION {{r[1] : r \in ServerHistory(profile, chg, o)} :
              o \in {w \in Windows : w < FirstEmpty(chg)}}

ExpectedUpto(chg) == IF SeenIndexes(chg) = {} THEN 0 ELSE Max(SeenIndexes(chg))

\* C2: on each chain the scan stops exactly at the first empty window: no
\* window after it is derived or queried, every HistoryBatch is a non-empty
\* window before it, and when the scan is over the first empty window of each
\* chain has been queried and upto_index holds the greatest derivation index
\* of the non-empty windows (0 if the first window is empty).
C2_ScanHalts ==
    /\ \A k \in 1..Len(rpc) :
          /\ rpc[k].op \in {"script_pubkeys", "history"}
                => rpc[k].offset <= FirstEmpty(rpc[k].change)
          /\ rpc[k].op = "unspent" => rpc[k].offset < FirstEmpty(rpc[k].change)
    /\ \A k \in 1..Len(events) :
          events[k].type = "HistoryBatch"
              => /\ events[k].batch # {}
                 /\ events[k].no < FirstEmpty(OfChange(events[k]))
    /\ wpc = "tx" =>
          \A chg \in BOOLEAN :
              /\ sync.upto_index[chg] = ExpectedUpto(chg)
              /\ \E k \in 1..Len(rpc) :
                    rpc[k] = Call("history", client, chg, FirstEmpty(chg), TRUE)

\* C2 witness: a scan is over on a service with history on both chains, one
\* chain with history beyond its first empty window
C2_Witness ==
    /\ wpc = "tx"
    /\ sync.upto_index[TRUE] = 17
    /\ sync.upto_index[FALSE] = 25
    /\ ServerHistory(profile, TRUE, 2 * WindowSize) # {}

(***************************************************************************)
(* Failures, serialisation and the command queue.                          *)
(***************************************************************************)
\* a step of electrum_sync in which a call fails while the Channel is there
SyncCallFails ==
    /\ wpc \in SyncStates
    /\ session = "open"
    /\ Len(rpc') > Len(rpc)
    /\ ~rpc'[Len(rpc')].ok

\* C3: a failing call of a full sync adds exactly one Error to the event
\* stream, keeps what the pass has emitted, ends the pass (no message of the
\* pass follows its Error) and leaves the worker alive at rx.recv() with the
\* queue untouched.
C3_ErrorAbandonsPass ==
    /\ [][SyncCallFails =>
            /\ events' = Append(events, MsgError(events'[Len(events')].err))
            /\ wpc' = "recv"
            /\ cmdq' = cmdq
            /\ client' = client]_vars
    /\ [](\A k \in 1..(Len(events) - 1) :
            events[k].type = "Error"
                => events[k + 1].type \in {"Connecting", "LastBlockUpdate", "Error"})

\* C3 witness: a pass failed after a HistoryBatch, and the worker has then
\* handled a Pull
C3_Witness ==
    \E k \in 2..(Len(events) - 1) :
        /\ events[k - 1].type = "HistoryBatch"
        /\ events[k].type = "Error"
        /\ events[k + 1].type = "LastBlockUpdate"

\* C6: the messages of a pass are contiguous in the event stream: there is
\* no LastBlockUpdate and no Connecting of another pass between the
\* Connecting of a pass and its Complete or Error, and while the worker is
\* inside electrum_sync the last pass of the stream is still open.
C6_PassesContiguous ==
    /\ \A i \in PassStarts : \A j \in (i + 1)..PassEnd(i) :
          events[j].type \notin {"LastBlockUpdate", "Connecting", "ChannelDisconnected"}
    /\ wpc \in SyncStates =>
          /\ PassStarts # {}
          /\ ~IsPassEnd(events[Len(events)])
          /\ PassEnd(Max(PassStarts)) = Len(events)

\* C6 witness: a Pull and a Sync wait in the queue while a pass is in the
\* middle of its scan
C6_Witness ==
    /\ wpc = "utxo"
    /\ Len(cmdq) = 2
    /\ cmdq[1].type = "Pull"
    /\ cmdq[2].type = "Sync"

\* C7: the queue does not deduplicate: as long as the worker has a client,
\* every Sync sent has started a pass or still waits in the queue, and a pass
\* starts only when the worker is at rx.recv() and the pass before it has
\* emitted Complete or Error.
C7_OnePassPerSync ==
    /\ []((((wpc = "init" \/ client # None) /\ wpc # "dead"))
            => passes + Count(cmdq, "Sync") = Count(issued, "Sync"))
    /\ [][passes' # passes =>
            /\ passes' = passes + 1
            /\ wpc = "recv"
            /\ PassStarts # {} => IsPassEnd(events[PassEnd(Max(PassStarts))])]_vars

\* C7 witness: three Sync were sent, two of them while a pass was under way,
\* and the third pass has completed
C7_Witness ==
    /\ issued = <<CmdSync, CmdSync, CmdSync>>
    /\ passes = 3
    /\ wpc = "recv"
    /\ events[Len(events)].type = "Complete"

\* the worker takes a command of the given type off the queue
Dequeues(type) ==
    /\ wpc = "recv"
    /\ cmdq # <<>>
    /\ Head(cmdq).type = type
    /\ cmdq' = Tail(cmdq)

\* C4: after a failed connection (the worker has no client) the next Sync
\* and the next Update each make the worker attempt the connection again.
C4_ConnectionRetried ==
    [][(client = None /\ session = "open" /\ (Dequeues("Sync") \/ Dequeues("Update")))
          => (Len(rpc') = Len(rpc) + 1 /\ rpc'[Len(rpc')].op = "connect")]_vars

\* C5: no Sync is taken off the queue without producing an event: taking it
\* starts a pass, whose first message is Connecting.
C5_SyncProducesEvents ==
    [][(session = "open" /\ Dequeues("Sync"))
          => (passes' = passes + 1 /\ events' # <<>> /\ events'[1].type = "Connecting")]_vars

\* C8: handling Update(e) makes e the worker's server and attempts the
\* connection to e at once, whether or not the worker has a client.
C8_UpdateReconnects ==
    [][(session = "open" /\ Dequeues("Update"))
          => /\ electrum' = Head(cmdq).server
             /\ Len(rpc') = Len(rpc) + 1
             /\ rpc'[Len(rpc')].op = "connect"
             /\ rpc'[Len(rpc')].server = Head(cmdq).server]_vars

\* the window has sent Update(e) and then Sync, and nothing else
UpdateThenSync(e) == issued = <<CmdUpdate(e), CmdSync>>

\* the worker has handled every Sync and Update sent so far
AllHandled ==
    /\ wpc = "recv"
    /\ session = "open"
    /\ Count(cmdq, "Sync") = 0
    /\ Count(cmdq, "Update") = 0

\* the adapter calls of the passes
PassCalls == {k \in 1..Len(rpc) : rpc[k].op \notin {"connect", "script_pubkeys"}}

\* C9 as stated: Update(e) with a Sync queued behind it results in two full
\* passes, both against e.
C9_TwoPasses ==
    \A e \in Servers :
        (UpdateThenSync(e) /\ AllHandled)
            => /\ passes = 2
               /\ \A k \in PassCalls : rpc[k].server = e

\* C9 amended: Update(e) with a Sync queued behind it results in one full
\* pass, not two, and every adapter call of it goes to e; the worker
\* performs no pass when it is left without a client.
C9_OnePassOnNewServer ==
    \A e \in Servers :
        UpdateThenSync(e)
            => /\ \A k \in PassCalls : rpc[k].server = e
               /\ passes <= 1
               /\ AllHandled => passes = (IF client # None THEN 1 ELSE 0)

\* C9 witness: Update("e2") and the Sync behind it have been handled, and the
\* pass has completed
C9_Witness ==
    /\ UpdateThenSync("e2")
    /\ AllHandled
    /\ passes = 1
    /\ events[Len(events)].type = "Complete"

\* C10: once the receiving end of the event channel is gone, the worker
\* thread eventually terminates.
C10_WorkerDiesWithChannel == (session # "open") ~> (wpc = "dead")

(***************************************************************************)
(* The transactions of a pass.                                             *)
(***************************************************************************)
\* the places of the TxBatch messages in the event stream
TxBatches == {k \in 1..Len(events) : events[k].type = "TxBatch"}

\* the txids of the records of the HistoryBatch and UtxoBatch messages
Referenced ==
    UNION {{item.txid : item \in events[k].batch} :
              k \in {j \in 1..Len(events) : events[j].type \in {"HistoryBatch", "UtxoBatch"}}}

\* C11: no TxBatch holds more than 20 transactions, no txid is in two
\* TxBatch messages, every txid fetched is referenced by a history or UTXO
\* record the pass has emitted, and when the pass reaches Complete the txids
\* fetched are exactly the txids referenced.
C11_TxidsFetched ==
    /\ \A k \in TxBatches :
          /\ Cardinality(events[k].batch) <= ChunkSize
          /\ events[k].batch \subseteq Referenced
          /\ \A l \in TxBatches : l # k => events[k].batch \cap events[l].batch = {}
    /\ Count(events, "Complete") = 1 =>
          UNION {events[k].batch : k \in TxBatches} = Referenced

\* C11 witness: a completed pass with more than 20 txids, one of them
\* referenced by a UTXO record only
C11_Witness ==
    /\ Count(events, "Complete") = 1
    /\ Cardinality(TxBatches) = 2
    /\ Cardinality(Referenced) > ChunkSize
    /\ \E k \in 1..Len(events) :
          /\ events[k].type = "UtxoBatch"
          /\ \E u \in events[k].batch :
                \A j \in 1..Len(events) :
                    events[j].type = "HistoryBatch" => \A h \in events[j].batch : h.txid # u.txid

\* C12: the fractions num/den of the successive TxBatch messages of a pass
\* are strictly increasing, each lies in [0,1], and the last TxBatch of a
\* pass that reaches Complete carries the fraction 1.
C12_ProgressReachesOne ==
    /\ \A k \in TxBatches :
          /\ 0 <= events[k].num /\ events[k].num <= events[k].den
          /\ \A l \in TxBatches :
                k < l => events[k].num * events[l].den < events[l].num * events[k].den
    /\ (Count(events, "Complete") = 1 /\ TxBatches # {}) =>
          events[Max(TxBatches)].num = events[Max(TxBatches)].den

(***************************************************************************)
(* What the wallet window shows and stores.                                *)
(***************************************************************************)
\* the order of the tags of ElectrumState within one sync attempt
Rank(tag) ==
    CASE tag = "Connecting" -> 0
      [] tag = "QueryingBlockchainState" -> 1
      [] tag = "RetrievingFees" -> 2
      [] tag = "RetrievingHistory" -> 3
      [] tag = "RetrievingTransactions" -> 4
      [] tag = "Complete" -> 5

\* the window handles a message of one of the given types
Handles(types) ==
    /\ session = "open"
    /\ NextMsg <= Len(events)
    /\ events[NextMsg].type \in types
    /\ handled' = NextMsg
    /\ seen' = passes

\* C13: within a sync attempt the tag of the ElectrumState shown only moves
\* forward through Connecting, QueryingBlockchainState, RetrievingFees,
\* RetrievingHistory, RetrievingTransactions, Complete; Error is the only
\* exception; after Error (and after Complete) the tag changes only to the
\* Connecting of the next pass or to Error; and handling LastBlockUpdate
\* leaves the state as it is.
C13_StateAdvances ==
    /\ [][electrum_state'.tag # electrum_state.tag =>
            \/ electrum_state'.tag = "Error"
            \/ /\ electrum_state'.tag = "Connecting"
               /\ electrum_state.tag \in {"None", "Complete", "Error"}
            \/ /\ electrum_state.tag \notin {"None", "Complete", "Error"}
               /\ Rank(electrum_state.tag) < Rank(electrum_state'.tag)]_vars
    /\ [][Handles({"LastBlockUpdate"}) => electrum_state' = electrum_state]_vars
    /\ [](\A i, j \in 1..Len(shown) :
            i < j => IF shown[i].tag = "Error"
                     THEN shown[j].tag = "Error"
                     ELSE shown[j].tag = "Error" \/ Rank(shown[i].tag) <= Rank(shown[j].tag))

\* C13 witness: the window has shown RetrievingHistory and then Error, and
\* has handled a LastBlockUpdate after that
C13_Witness ==
    /\ Drained
    /\ handled > 0
    /\ events[handled].type = "LastBlockUpdate"
    /\ electrum_state.tag = "Error"
    /\ Len(shown) >= 2
    /\ shown[Len(shown) - 1].tag = "RetrievingHistory"

\* the places in shown of the RetrievingHistory states: the first is set by
\* FeeEstimate, the others by the HistoryBatch and UtxoBatch messages
History == {i \in 1..Len(shown) : shown[i].tag = "RetrievingHistory"}

\* C14: the counter of RetrievingHistory is a running counter over the
\* whole pass: over the batches of the Change chain and then of the
\* Receiving chain it never decreases, and it grows from each batch to the
\* next.
C14_RunningCounter ==
    \A i, j \in History :
        i < j => /\ shown[i].n <= shown[j].n
                 /\ (i > Min(History) /\ j = i + 1) => shown[i].n < shown[j].n

\* the tags of a sequence of ElectrumStates, or the types of a sequence of
\* messages
Tags(seq) == [i \in 1..Len(seq) |-> seq[i].tag]

Types(seq) == [i \in 1..Len(seq) |-> seq[i].type]

\* the service holds no history for the first window of either chain
NoHistory == \A chg \in BOOLEAN : ServerHistory(profile, chg, 0) = {}

\* C15 as stated: a wallet with no history on either chain completes a full
\* sync with exactly one HistoryBatch of length 0 per chain, for which the
\* window shows the RetrievingHistory counters 0 and 1.
C15_EmptyBatches ==
    (NoHistory /\ electrum_state.tag = "Complete")
        => /\ Count(events, "HistoryBatch") = 2
           /\ \A k \in 1..Len(events) :
                 events[k].type = "HistoryBatch" => events[k].batch = {}
           /\ \E i \in History : shown[i].n = 1

\* C15 amended: a wallet with no history on either chain completes a full
\* sync without any HistoryBatch, UtxoBatch or TxBatch: the first window of
\* each chain is queried once and, being empty, ends the scan of the chain
\* without a message; the pass is Connecting, Connected, LastBlock,
\* FeeEstimate, Complete, and the window shows RetrievingHistory once, with
\* the counter 0 set by FeeEstimate.
C15_NoBatchForEmpty ==
    NoHistory =>
        /\ \A k \in 1..Len(events) :
              events[k].type \notin {"HistoryBatch", "UtxoBatch", "TxBatch"}
        /\ Count(events, "Complete") = 1 =>
              /\ SubSeq(Types(events), 1, 5) =
                    <<"Connecting", "Connected", "LastBlock", "FeeEstimate", "Complete">>
              /\ \A chg \in BOOLEAN :
                    Cardinality({k \in 1..Len(rpc) :
                        rpc[k].op = "history" /\ rpc[k].change = chg}) = 1
        /\ electrum_state.tag = "Complete" =>
              /\ Tags(shown) = <<"Connecting", "QueryingBlockchainState", "RetrievingFees",
                                 "RetrievingHistory", "Complete">>
              /\ shown[4].n = 0

\* C15 witness: the window shows Complete for a wallet without history
C15_Witness ==
    /\ NoHistory
    /\ electrum_state.tag = "Complete"
    /\ Drained
    /\ wallet.fees

\* a step of the worker thread or of the block watcher thread
ThreadStep ==
    \/ wpc' # wpc
    \/ sync' # sync
    \/ events' # events
    \/ rpc' # rpc
    \/ client' # client
    \/ ticker' # ticker
    \/ Len(cmdq') < Len(cmdq)
    \/ (cmdq' # cmdq /\ issued' = issued)

\* C16: the WalletState has a single writer: it changes only when the
\* window handles a LastBlock, LastBlockUpdate, FeeEstimate, HistoryBatch,
\* UtxoBatch or TxBatch message, or records the change index of a payment;
\* every step of the worker thread and of the block watcher thread leaves it
\* unchanged.
C16_SingleWriter ==
    /\ [][wallet' # wallet =>
            \/ /\ Handles({"LastBlock", "LastBlockUpdate", "FeeEstimate",
                            "HistoryBatch", "UtxoBatch", "TxBatch"})
               /\ wallet'.next_change_index = wallet.next_change_index
            \/ /\ wallet' = [wallet EXCEPT !.next_change_index = wallet.next_change_index + 1]
               /\ UNCHANGED <<handled, seen, electrum_state, shown>>]_vars
    /\ [][ThreadStep => wallet' = wallet]_vars

\* C16 witness: the wallet holds the history, the unspent outputs and the
\* transactions of a pass while the worker is in the middle of the next one
C16_Witness ==
    /\ wallet.history # {}
    /\ wallet.utxos # {}
    /\ wallet.transactions # {}
    /\ passes = 2
    /\ wpc = "utxo"

(***************************************************************************)
(* The transaction builder.                                                *)
(***************************************************************************)
\* the call has returned
Returned == compose.result.kind # "None"

\* the beneficiaries of the call all parse
ValidOutputs == \A i \in 1..Len(compose.beneficiaries) : compose.beneficiaries[i].valid

\* C17: compose_psbt runs the step of its fee loop at most 6 times and
\* returns; a wallet that holds the outputs and any fee the loop can ask
\* for gets a template, after at least one and at most 6 turns; and
\* FeeFailure is returned only after the 6 turns.
C17_FeeLoopBounded ==
    Returned =>
        /\ compose.result.cycle_lim <= CycleLimit
        /\ compose.result.kind = "FeeFailure" => compose.result.cycle_lim = CycleLimit
        /\ ( /\ ValidOutputs
             /\ compose.beneficiaries # <<>>
             /\ TotalValue(compose.utxos) >=
                   OutputValue(compose.beneficiaries) + 2 * DUST_RELAY_TX_FEE )
              => /\ compose.result.kind = "Psbt"
                 /\ compose.result.cycle_lim >= 1

\* C18: with no spendable output and a nonzero amount to pay, compose_psbt
\* asks coinselect for the outputs plus the dust-relay fee in its first turn
\* and returns InsufficientFunds from it, never a template.
C18_InsufficientFunds ==
    ( /\ Returned
      /\ ValidOutputs
      /\ compose.utxos = {}
      /\ OutputValue(compose.beneficiaries) > 0 )
        => /\ compose.result.kind = "InsufficientFunds"
           /\ compose.result.asked =
                 <<OutputValue(compose.beneficiaries) + DUST_RELAY_TX_FEE>>

C20_HeightToTime ==
    est.result.kind # "None" =>
        /\ est.height > 0 =>
              /\ est.result.kind = "Time"
              /\ est.result.time % 600 = 1651158666 % 600
              /\ est.result.time \div 600 - 1651158666 \div 600 = est.height - 733961
        /\ est.height <= 0 => est.result = [kind |-> "Now", time |-> est.now]

(***************************************************************************)
(* The windows of the scan, one after the other.                           *)
(***************************************************************************)
\* the step makes the adapter call op (the last call of the step)
Calls(op) == Len(rpc') > Len(rpc) /\ rpc'[Len(rpc')].op = op

\* the last message of the stream is of the given type and about the window
\* of the chain chg at offset off
LastIs(type, chg, off) ==
    /\ events # <<>>
    /\ events[Len(events)].type = type
    /\ events[Len(events)].no = off
    /\ \E k \in 1..Len(events) :
          /\ events[k].type = "HistoryBatch"
          /\ events[k].no = off
          /\ OfChange(events[k]) = chg
          /\ \A l \in (k + 1)..Len(events) : events[l].type # "HistoryBatch"

\* C22: a window whose history is not empty is reported at once: the step
\* that gets the history emits HistoryBatch with the offset of the window
\* and goes on to the unspent outputs; the unspent outputs of a window are
\* queried when its HistoryBatch is the last message emitted; the answer is
\* emitted in the same step as UtxoBatch with the same offset, empty or
\* not, and a failure as Error; and the next window is derived only when
\* the UtxoBatch of the window before it is the last message emitted.
C22_WindowsIncremental ==
    [][session = "open" =>
         /\ (Calls("history") /\ rpc'[Len(rpc')].ok
                /\ history_batch(sync.change, sync.offset) # {})
               => /\ events' = Append(events, MsgHistoryBatch(
                                     history_batch(sync.change, sync.offset), sync.offset))
                  /\ wpc' = "utxo"
                  /\ sync'.offset = sync.offset
         /\ Calls("unspent")
               => /\ LastIs("HistoryBatch", rpc'[Len(rpc')].change, rpc'[Len(rpc')].offset)
                  /\ rpc'[Len(rpc')].offset = sync.offset
                  /\ events' = Append(events,
                        IF rpc'[Len(rpc')].ok
                        THEN MsgUtxoBatch(utxos(sync.change, sync.offset), sync.offset)
                        ELSE MsgError("rpc"))
         /\ (Len(rpc') > Len(rpc) /\ rpc'[Len(rpc) + 1].op = "script_pubkeys"
                /\ rpc'[Len(rpc) + 1].offset > 0)
               => LastIs("UtxoBatch", rpc'[Len(rpc) + 1].change,
                         rpc'[Len(rpc) + 1].offset - WindowSize)]_vars

\* C22 witness: a window with history and no unspent output was reported by
\* a HistoryBatch and an empty UtxoBatch, and the query of the unspent
\* outputs of the next window failed after its HistoryBatch
C22_Witness ==
    \E k \in 1..(Len(events) - 3) :
        /\ events[k].type = "HistoryBatch"
        /\ events[k + 1] = MsgUtxoBatch({}, events[k].no)
        /\ events[k + 2].type = "HistoryBatch"
        /\ events[k + 2].no = events[k].no + WindowSize
        /\ events[k + 3].type = "Error"

(***************************************************************************)
(* The order of the commands.                                              *)
(***************************************************************************)
\* the Sync and Update commands waiting in the queue, in order
Waiting == SelectSeq(cmdq, LAMBDA c : c.type # "Pull")

\* the number of Sync and Update commands the worker has taken off the queue
Done == Len(issued) - Len(Waiting)

\* the server in force when the first n commands sent have been handled:
\* that of the last Update among them, or the server of the settings
Endpoint(n) ==
    LET updates == {i \in 1..n : issued[i].type = "Update"}
    IN  IF updates = {} THEN "e1" ELSE issued[Max(updates)].server

\* the Sync that began the latest pass: a Sync begins a pass unless the
\* worker has no client, and a worker without a client stays without one
PassSync ==
    CHOOSE i \in 1..Len(issued) :
        issued[i].type = "Sync" /\ Count(SubSeq(issued, 1, i), "Sync") = passes

\* the connection attempts logged
Connects == {k \in 1..Len(rpc) : rpc[k].op = "connect"}

\* C23: the commands are handled in the order they were sent: the Sync and
\* Update commands waiting are the tail of those sent; every adapter call
\* of a pass goes to the server in force when its Sync was taken off the
\* queue, whatever Update waits behind it; and once an Update(e) has been
\* handled the worker holds the client built for e, or no client because
\* the connection to e failed, and holds it for the commands that follow.
C23_StrictFifo ==
    /\ Waiting = SubSeq(issued, Done + 1, Len(issued))
    /\ passes > 0 => \A k \in PassCalls : rpc[k].server = Endpoint(PassSync)
    /\ (wpc = "recv" /\ \E i \in 1..Done : issued[i].type = "Update")
          => \/ client = Endpoint(Done)
             \/ /\ client = None
                /\ Connects # {}
                /\ rpc[Max(Connects)] = Call("connect", Endpoint(Done), FALSE, 0, FALSE)

\* the first two conjuncts of C23: the order of the queue and the server of
\* the calls of a pass
C23_QueueOrder ==
    /\ Waiting = SubSeq(issued, Done + 1, Len(issued))
    /\ passes > 0 => \A k \in PassCalls : rpc[k].server = Endpoint(PassSync)

\* C24: handling a Pull with a client adds at most one message to the
\* stream, LastBlockUpdate or Error, and nothing else happens: no pass
\* begins, the worker is back at rx.recv() with the client it had, and no
\* adapter call of a pass is made.
C24_PullEmitsAtMostOne ==
    [][(session = "open" /\ client # None /\ Dequeues("Pull"))
          => /\ events' \in {events, Append(events, MsgLastBlockUpdate),
                              Append(events, MsgError("rpc"))}
             /\ wpc' = "recv"
             /\ passes' = passes
             /\ client' = client
             /\ rpc' = rpc]_vars

\* C24 witness: after a completed pass a Pull has reported a new tip, and a
\* Pull waits in the queue
C24_Witness ==
    /\ Len(events) >= 2
    /\ events[Len(events) - 1].type = "Complete"
    /\ events[Len(events)].type = "LastBlockUpdate"
    /\ Count(events, "TxBatch") = 2
    /\ cmdq # <<>>
    /\ Head(cmdq).type = "Pull"
    /\ wpc = "recv"

(***************************************************************************)
(* The block watcher and the pass under way.                               *)
(***************************************************************************)
\* the messages of a chain of a pass that does not fail
ChainBatches(chg) ==
    [i \in 1..(2 * (FirstEmpty(chg) \div WindowSize)) |->
        LET off == ((i - 1) \div 2) * WindowSize
        IN  IF i % 2 = 1 THEN MsgHistoryBatch(history_batch(chg, off), off)
            ELSE MsgUtxoBatch(utxos(chg, off), off)]

\* the txids of the messages of a sequence
TxidsOf(seq) == UNION {{item.txid : item \in seq[i].batch} : i \in 1..Len(seq)}

\* the messages of a pass that does not fail, for what the service holds
WholePass ==
    LET batches == ChainBatches(ChainOrder[1]) \o ChainBatches(ChainOrder[2])
        ids == TxidsOf(batches)
        n == Cardinality(ids)
    IN  <<MsgConnecting, MsgConnected, MsgLastBlock, MsgFeeEstimate>> \o batches
        \o [k \in 1..NumChunks(n) |->
               MsgTxBatch(Chunk(ids, k - 1), Progress(k - 1, n)[1], Progress(k - 1, n)[2])]
        \o <<MsgComplete>>

\* a Pull is put in the queue
PullEnqueued == Len(cmdq') = Len(cmdq) + 1 /\ cmdq'[Len(cmdq')] = CmdPull

\* C25: the block watcher can put its Pull in the queue whatever the worker
\* is doing, as long as the worker thread lives (and the queue of the model
\* has room); putting it there changes nothing but the queue; the worker
\* takes no command while a pass is under way; and the messages of the pass
\* are those of a pass without any Pull, whatever waits in the queue.
C25_TickerNeverBlocks ==
    /\ []((ticker = "alive" /\ wpc # "dead" /\ Len(cmdq) < MaxQueue) => ENABLED Tick)
    /\ [][PullEnqueued =>
            /\ cmdq' = Append(cmdq, CmdPull)
            /\ UNCHANGED <<events, rpc, passes, wpc, sync, client, electrum>>]_vars
    /\ [][(wpc \in SyncStates) => SubSeq(cmdq', 1, Len(cmdq)) = cmdq]_vars
    /\ [](wpc \in SyncStates =>
            /\ Len(events) <= Len(WholePass)
            /\ events = SubSeq(WholePass, 1, Len(events)))
    /\ [](Count(events, "Complete") = 1 =>
            SubSeq(events, 1, Len(WholePass)) = WholePass)

\* C25 witness: two Pull commands wait in the queue while the worker is
\* between the two transaction chunks of a pass
C25_Witness ==
    /\ wpc = "tx"
    /\ sync.no = 1
    /\ cmdq = <<CmdPull, CmdPull>>
    /\ ticker = "alive"

(***************************************************************************)
(* The end of the two threads.                                             *)
(***************************************************************************)
\* C27: once the worker thread has ended the block watcher ends too, at its
\* next send, which puts nothing in the queue; the block watcher never ends
\* before the worker; and the worker never finds its queue disconnected:
\* ChannelDisconnected is never emitted.
C27_ShutdownCascades ==
    /\ (wpc = "dead") ~> (ticker = "dead")
    /\ [][wpc = "dead" => cmdq' = cmdq]_vars
    /\ [](ticker = "dead" => wpc = "dead")
    /\ [](\A k \in 1..Len(events) : events[k].type # "ChannelDisconnected")

\* C27 witness: both threads have ended, the worker in the middle of a pass
\* (its window had been closed), with a Pull left in the queue
C27_Witness ==
    /\ wpc = "dead"
    /\ ticker = "dead"
    /\ session = "closed"
    /\ cmdq # <<>>
    /\ cmdq[Len(cmdq)] = CmdPull
    /\ Count(events, "HistoryBatch") > 0
    /\ Count(events, "Complete") = 0

(***************************************************************************)
(* The launcher and its count of windows.                                  *)
(***************************************************************************)
\* the wallet windows that are open
OpenWindows == {i \in 1..Len(launcher.wallets) : launcher.wallets[i].open}

\* window_count never underflows, the launcher is visible whenever the
\* count is 0, and no window sends WalletClosed twice
C29_NoUnderflow ==
    /\ ~launcher.underflow
    /\ launcher.window_count = 0 => launcher.visible
    /\ \A i \in 1..Len(launcher.wallets) : launcher.wallets[i].sent <= 1

\* C29: window_count of the launcher is the number of windows opened and not
\* closed, counting as open a window whose WalletClosed the launcher has not
\* handled yet; every window that has closed, one whose file failed to load
\* included, has sent exactly one WalletClosed; WalletClosed is never handled
\* at count 0; and the launcher is visible whenever the count is 0.
C29_WindowCount ==
    /\ launcher.window_count = Cardinality(OpenWindows) + Cardinality({k \in 1..Len(launcher.stream) : launcher.stream[k] = "WalletClosed"})
    /\ \A i \in 1..Len(launcher.wallets) :
          /\ launcher.wallets[i].sent <= 1
          /\ ~launcher.wallets[i].open => launcher.wallets[i].sent = 1
    /\ ~launcher.underflow
    /\ launcher.window_count = 0 => launcher.visible

(***************************************************************************)
(* The arithmetic of the scan.                                             *)
(***************************************************************************)
\* C28: whatever the service answers, the offset of the scan stays a u16,
\* the upper index offset + 19 of every window the worker derives stays a
\* u16, and the worker does not end on an overflow.
C28_OffsetInRange ==
    /\ sync.offset <= U16Max
    /\ \A i \in 1..Len(rpc) :
          rpc[i].op = "script_pubkeys" => rpc[i].offset + (WindowSize - 1) <= U16Max
    /\ session = "open" => wpc # "dead"

(***************************************************************************)
(* Payments and the wallet.                                                *)
(***************************************************************************)
\* the errors of compose_psbt
PayErrors == {"BeneficiaryError", "InsufficientFunds", "FeeFailure", "ConstructError"}

\* C26: composing a payment leaves the unspent outputs and the history of
\* the wallet alone; when compose_psbt fails on Response(Ok) its error is
\* shown, nothing is emitted to the launcher, the dialog stays and the
\* wallet is unchanged; and the change index of the wallet changes only in
\* a step that emits CreatePsbt.
C26_PayFrame ==
    /\ [][pay' # pay =>
            /\ wallet'.utxos = wallet.utxos
            /\ wallet'.history = wallet.history
            /\ wallet'.transactions = wallet.transactions
            /\ pay'.message \in PayErrors =>
                  /\ pay'.emitted = pay.emitted
                  /\ pay'.hidden = pay.hidden
                  /\ wallet' = wallet]_vars
    /\ [][wallet'.next_change_index # wallet.next_change_index =>
            /\ pay'.emitted = Append(pay.emitted, "CreatePsbt")
            /\ pay'.message = None]_vars
    /\ [](pay.emitted = <<>> => wallet.next_change_index = 0)

\* C26 witness: a payment composed on a wallet with unspent outputs has
\* failed: its error is shown, nothing was emitted, the change index is 0
C26_Witness ==
    /\ pay.message = "ConstructError"
    /\ wallet.utxos # {}
    /\ wallet.history # {}
    /\ pay.emitted = <<>>
    /\ ~pay.hidden
    /\ wallet.next_change_index = 0

(***************************************************************************)
(* The UTXO set of the wallet.                                             *)
(***************************************************************************)
\* C21: handling a UtxoBatch again leaves the UTXO set of the wallet as the
\* first handling left it, and the set holds one record per outpoint, the
\* records of the batch among them.
C21_UtxoBatchIdempotent ==
    /\ [][(apply'.times = apply.times + 1 /\ apply.times >= 1)
            => wallet'.utxos = wallet.utxos]_vars
    /\ [](apply.times >= 1 =>
            /\ OnePerOutpoint(wallet.utxos)
            /\ apply.batch \subseteq wallet.utxos)

\* C21 witness: a batch has been handled twice by a wallet that held another
\* record for one of its outpoints and a record the batch does not list
C21_Witness ==
    /\ apply.times = 2
    /\ \E b \in apply.batch, u \in apply.before : outpoint(u) = outpoint(b) /\ u # b
    /\ \E u \in apply.before : \A b \in apply.batch : outpoint(u) # outpoint(b)
    /\ wallet.utxos # apply.batch

=============================================================================
